---------------------------- MODULE Spec2Model ----------------------------
(***************************************************************************)
(* A model of the reference resolver of referencesrv/resolver:             *)
(*   solve.py        choose_solution, inspect_doubtful_solutions,          *)
(*                   solve_for_fields, solve_reference                     *)
(*   hypotheses.py   Hypotheses.make_digested_record, construct_bibcode,   *)
(*                   iter_hypotheses                                       *)
(*   specialrules.py iter_journal_specific_hypotheses                      *)
(*                                                                         *)
(* Three specifications share the module:                                  *)
(*   Spec            the resolution driver solve_reference                 *)
(*   ChooserSpec     choose_solution on every bounded candidate list       *)
(*   HypothesesSpec  digestion and the hypothesis cascade                  *)
(***************************************************************************)
EXTENDS Integers, Sequences, FiniteSets, TLC

VARIABLES
    min_score,           \* config MIN_SCORE_FIRST_ROUND, in units of 1/MinScoreDen
    \* ---- solve_reference -------------------------------------------------
    hyps,                \* what Hypotheses.iter_hypotheses(ref) will yield
    pos,                 \* number of hypotheses taken from the generator
    possible_solutions,  \* the stash: sequence of <<score, bibcode>>
    result,              \* how solve_reference ended ("running" until then)
    queried,             \* names of the hypotheses handed to solve_for_fields
    history,             \* outcome of solve_for_fields for each of them
    querierCount,        \* number of Querier() constructions so far
    hasQueryAttr,        \* hasattr(solve_for_fields, "query")
    \* ---- choose_solution -------------------------------------------------
    candidates,          \* the scored list handed to choose_solution
    chooserHyp,          \* the hypothesis handed to choose_solution
    chosen,              \* its outcome ("idle" until it ran)
    \* ---- Hypotheses ------------------------------------------------------
    ref,                 \* the reference record handed to Hypotheses(ref)
    digested_record,     \* self.digested_record
    normalized_authors,  \* self.normalized_authors (<< >> for None)
    normalized_first_author, \* self.normalized_first_author
    has_etal,            \* the local has_etal of iter_hypotheses
    gen_pc,              \* where the constructor / the generator stands
    yielded,             \* the hypotheses iter_hypotheses has yielded so far
    \* ---- iter_journal_specific_hypotheses called on its own ---------------
    extras_called,       \* whether the call has been made
    extras_args,         \* its arguments
    extras_out           \* everything it yielded, in order

driverVars  == <<hyps, pos, possible_solutions, result, queried, history,
                 querierCount, hasQueryAttr>>
chooserVars == <<candidates, chooserHyp, chosen>>
hypVars     == <<ref, digested_record, normalized_authors, normalized_first_author,
                 has_etal, gen_pc, yielded>>
extrasVars  == <<extras_called, extras_args, extras_out>>
vars        == <<min_score, driverVars, chooserVars, hypVars, extrasVars>>

\* no Hypotheses object exists
HypothesesIdle ==
    /\ ref = << >>
    /\ digested_record = << >>
    /\ normalized_authors = << >>
    /\ normalized_first_author = << >>
    /\ has_etal = FALSE
    /\ gen_pc = "idle"
    /\ yielded = << >>

\* iter_journal_specific_hypotheses has not been called on its own
ExtrasIdle ==
    /\ extras_called = FALSE
    /\ extras_args = [bibstem |-> << >>, year |-> << >>, author |-> << >>,
                      journal |-> << >>, volume |-> << >>, page |-> << >>]
    /\ extras_out = << >>

-----------------------------------------------------------------------------
(* Bounds of the model *)

\* longest Evidence Ledger (number of evidence entries)
MaxEvid == 3
\* longest backend result list
MaxCands == 2
\* longest hypothesis sequence the driver is given
NumHyp == 3
\* number of distinct bibcodes the backend knows
NumBibcodes == 2

-----------------------------------------------------------------------------
(* Configuration and the Evidence Ledger (referencesrv.resolver.common)    *)

\* config EVIDENCE_SCORE_RANGE = [low, high]
EvidenceLow == -1
EvidenceHigh == 1
\* MIN_SCORE_FIRST_ROUND is min_score / MinScoreDen
MinScoreDen == 4
MinScoreChoices == {1, 2}

Bibcodes == 1..NumBibcodes

\* one evidence entry: a weight in the score range and the reason (label)
PosEntry       == [w |-> EvidenceHigh, reason |-> "author"]
ZeroEntry      == [w |-> 0,            reason |-> "year"]
VetoPageEntry  == [w |-> EvidenceLow,  reason |-> "page"]
VetoOtherEntry == [w |-> EvidenceLow,  reason |-> "author"]
EntryList == <<PosEntry, ZeroEntry, VetoPageEntry, VetoOtherEntry>>

\* Every ledger of 1..MaxEvid entries, up to the order of its entries (no
\* operation of the ledger depends on that order).
Ledgers ==
    UNION { { [i \in 1..n |-> EntryList[f[i]]] :
                f \in { g \in [1..n -> 1..Len(EntryList)] :
                          \A i \in 1..(n-1) : g[i] <= g[i+1] } } :
            n \in 1..MaxEvid }

RECURSIVE SumWeights(_, _)
SumWeights(ev, n) == IF n = 0 THEN 0 ELSE ev[n].w + SumWeights(ev, n - 1)

\* Evidences.get_score(): the aggregate score, the sum of the weights
GetScore(ev) == SumWeights(ev, Len(ev))

\* Evidences.has_veto()
HasVeto(ev) == \E i \in 1..Len(ev) : ev[i].w = EvidenceLow

\* Evidences.single_veto_from(token)
SingleVetoFrom(ev, token) ==
    LET vetoes == { i \in 1..Len(ev) : ev[i].w = EvidenceLow }
    IN  /\ Cardinality(vetoes) = 1
        /\ \A i \in vetoes : ev[i].reason = token

\* Undecidable(reason) without considered_solutions carries the empty list
UndecidableDefault == << >>

-----------------------------------------------------------------------------
(* solve.py: the chooser *)

Undecidable(considered) == [kind |-> "Undecidable", considered |-> considered]
NoSolution == [kind |-> "NoSolution"]
Accept(pair) == [kind |-> "accept", ev |-> pair.ev, bibcode |-> pair.bibcode]

\* the first pair of scored_solutions with a single veto from "page"
FirstPageVetoed(scored) ==
    LET hits == { i \in 1..Len(scored) : SingleVetoFrom(scored[i].ev, "page") }
    IN  IF hits = {} THEN 0
        ELSE CHOOSE i \in hits : \A j \in hits : i <= j

\* inspect_doubtful_solutions returning its lone non-vetoed candidate instead
\* of raising Undecidable
InspectDoubtful_Accepts(scored, hypothesis) ==
    LET non_veto == SelectSeq(scored, LAMBDA p : ~HasVeto(p.ev))
        hit == FirstPageVetoed(scored)
    IN  IF Len(non_veto) = 1
        THEN Accept(non_veto[1])
        ELSE IF /\ hypothesis.has_input_fields
                /\ ~hypothesis.input_page
                /\ hit # 0
        THEN Undecidable(<< <<GetScore(scored[hit].ev), scored[hit].bibcode>> >>)
        ELSE NoSolution

\* inspect_doubtful_solutions(scored_solutions, query_string, hypothesis)
\* inspect_doubtful_solutions forgiving a page veto even when the input
\* has a page
InspectDoubtful_IgnoresInputPage(scored, hypothesis) ==
    LET non_veto == SelectSeq(scored, LAMBDA p : ~HasVeto(p.ev))
        hit == FirstPageVetoed(scored)
    IN  IF Len(non_veto) = 1
        THEN Undecidable(<< <<GetScore(non_veto[1].ev), non_veto[1].bibcode>> >>)
        ELSE IF hypothesis.has_input_fields /\ hit # 0
        THEN Undecidable(<< <<GetScore(scored[hit].ev), scored[hit].bibcode>> >>)
        ELSE NoSolution

InspectDoubtfulSolutions(scored, hypothesis) ==
    LET non_veto == SelectSeq(scored, LAMBDA p : ~HasVeto(p.ev))
        hit == FirstPageVetoed(scored)
    IN  IF Len(non_veto) = 1
        THEN Undecidable(<< <<GetScore(non_veto[1].ev), non_veto[1].bibcode>> >>)
        ELSE IF /\ hypothesis.has_input_fields
                /\ ~hypothesis.input_page
                /\ hit # 0
        THEN Undecidable(<< <<GetScore(scored[hit].ev), scored[hit].bibcode>> >>)
        ELSE NoSolution

\* score >= min_score*len(score)
ClearsFirstRound(ev, min) == GetScore(ev) * MinScoreDen >= min * Len(ev)

RECURSIVE MaxScore(_, _)
MaxScore(pairs, n) ==
    IF n = 1 THEN GetScore(pairs[1].ev)
    ELSE LET m == MaxScore(pairs, n - 1)
             s == GetScore(pairs[n].ev)
         IN  IF s > m THEN s ELSE m

\* choose_solution taking the last (best-sorted) survivor without looking
\* for equal scores
ChooseSolution_TakesLast(cands, hypothesis, min) ==
    LET filtered == SelectSeq(cands, LAMBDA p : ClearsFirstRound(p.ev, min))
    IN  IF Len(filtered) = 0
        THEN IF cands # << >>
             THEN InspectDoubtfulSolutions(cands, hypothesis)
             ELSE NoSolution
        ELSE Accept(filtered[Len(filtered)])

\* choose_solution(candidates, query_string, hypothesis)
ChooseSolution(cands, hypothesis, min) ==
    LET filtered == SelectSeq(cands, LAMBDA p : ClearsFirstRound(p.ev, min))
    IN  IF Len(filtered) = 0
        THEN IF cands # << >>
             THEN InspectDoubtfulSolutions(cands, hypothesis)
             ELSE NoSolution
        ELSE IF Len(filtered) = 1
        THEN Accept(filtered[1])
        ELSE LET best_score == MaxScore(filtered, Len(filtered))
                 best_solution ==
                     SelectSeq(filtered, LAMBDA p : GetScore(p.ev) = best_score)
             IN  IF Len(best_solution) = 1
                 THEN Accept(best_solution[1])
                 ELSE Undecidable(UndecidableDefault)


\* candidates must be sorted: solve_for_fields hands choose_solution
\* list(sorted(...)), ascending by score (equal scores in either order)
IsSortedByScore(pairs) ==
    \A i \in 1..(Len(pairs) - 1) : GetScore(pairs[i].ev) <= GetScore(pairs[i+1].ev)

\* every sorted list of 1..maxLen pairs over the given candidate records
SortedLists(cands, maxLen) ==
    UNION { { s \in [1..n -> cands] : IsSortedByScore(s) } : n \in 1..maxLen }

-----------------------------------------------------------------------------
(* solve.py: solve_for_fields and solve_reference *)

Running == [kind |-> "running"]
Solution(bibcode, score, rationale) ==
    [kind |-> "Solution", bibcode |-> bibcode, score |-> score,
     rationale |-> rationale]

\* the names Hypotheses.iter_hypotheses gives its hypotheses, in source order
\* (the journal-specific extras come between fielded-thesis and
\* fielded-author/page)
CascadeNames ==
    << "fielded-DOI", "fielded-arxiv", "fielded-bibcode",
       "fielded-auth/year/volume/page", "fielded-auth/pub/year",
       "fielded-title", "fielded-book", "fielded-thesis",
       "fielded-author/page", "fielded-first-author-norm/year",
       "fielded-first-author-norm~/year", "fielded-author-norm/year~",
       "fielded-no-author", "fielded-no-year" >>

\* what the driver needs of a hypothesis: its name and whether its
\* input_fields detail has a page
DriverHypothesis(i, page) ==
    [name |-> CascadeNames[i], has_input_fields |-> TRUE, input_page |-> page]

\* the ledgers the scorers give the backend's records in the driver's runs
DriverLedgers == { <<PosEntry>>, <<ZeroEntry>>, <<VetoPageEntry>> }

DriverCandidates == { [ev |-> l, bibcode |-> b] : l \in DriverLedgers, b \in Bibcodes }

\* what can come of query(query_string) and the scoring of its records: the
\* scored records (none: the falsy result), a KeyboardInterrupt, or any other
\* exception
BackendResponses ==
    { [kind |-> "cancel"], [kind |-> "crash"],
      [kind |-> "solutions", solutions |-> << >>] }
    \cup { [kind |-> "solutions", solutions |-> s] :
             s \in SortedLists(DriverCandidates, MaxCands) }

\* solve_for_fields(hypothesis): a Solution, or the exception it raises
SolveForFields(hypothesis, resp, min) ==
    IF resp.kind = "cancel" THEN [kind |-> "KeyboardInterrupt"]
    ELSE IF resp.kind = "crash" THEN [kind |-> "Exception"]
    ELSE IF resp.solutions = << >> THEN [kind |-> "Overflow"]
    ELSE LET c == ChooseSolution(resp.solutions, hypothesis, min)
         IN  IF c.kind = "accept"
             THEN Solution(c.bibcode, c.ev, hypothesis.name)
             ELSE c

\* the stash assigned instead of extended
StashAfter_Overwrite(out, stash) ==
    IF out.kind = "Undecidable" THEN out.considered ELSE stash

\* the stash after one hypothesis: except Undecidable extends it
StashAfter(out, stash) ==
    IF out.kind = "Undecidable" THEN stash \o out.considered ELSE stash

\* solve_for_fields called without "return": a Solution does not end the loop
ResultAfter_NoReturn(out) ==
    IF out.kind = "KeyboardInterrupt" THEN [kind |-> "KeyboardInterrupt"]
    ELSE Running

\* no bare "except:": an unexpected exception leaves solve_reference
ResultAfter_NoCatchAll(out) ==
    IF out.kind = "Solution" THEN out
    ELSE IF out.kind \in {"KeyboardInterrupt", "Exception"} THEN [kind |-> out.kind]
    ELSE Running

\* how one hypothesis's outcome leaves solve_reference: return, raise,
\* or go on with the loop
ResultAfter(out) ==
    IF out.kind = "Solution" THEN out
    ELSE IF out.kind = "KeyboardInterrupt" THEN [kind |-> "KeyboardInterrupt"]
    ELSE Running

\* (score, sol) tuples compare like Python tuples
TupleLess(a, b) == a[1] < b[1] \/ (a[1] = b[1] /\ a[2] < b[2])

\* cands[bibcode] = max(cands[bibcode])
BestTuple(stash, b) ==
    LET mine == { stash[i] : i \in { j \in 1..Len(stash) : stash[j][2] = b } }
    IN  CHOOSE t \in mine : \A u \in mine : ~TupleLess(t, u)

RECURSIVE SortTuples(_)
SortTuples(S) ==
    IF S = {} THEN << >>
    ELSE LET least == CHOOSE t \in S : \A u \in S : ~TupleLess(u, t)
         IN  <<least>> \o SortTuples(S \ {least})

\* scored = sorted(zip(cands.values(), cands.keys()))
ScoredStash(stash) ==
    LET bibs == { stash[i][2] : i \in 1..Len(stash) }
        sorted == SortTuples({ BestTuple(stash, b) : b \in bibs })
    IN  [i \in 1..Len(sorted) |-> [tuple |-> sorted[i], bibcode |-> sorted[i][2]]]

Exhausted == [kind |-> "NoSolution", reason |-> "Hypotheses exhausted"]

\* the part of solve_reference after the loop
ReconcileStash(stash) ==
    IF stash = << >> THEN Exhausted
    ELSE LET scored == ScoredStash(stash)
             n == Len(scored)
         IN  IF n = 1
             THEN Solution(scored[1].bibcode, scored[1].tuple,
                           "only remaining of tied solutions")
             ELSE IF TupleLess(scored[n-1].tuple, scored[n].tuple)
             THEN Solution(scored[1].bibcode, scored[1].tuple,
                           "best tied solution")
             ELSE Exhausted

ChooserIdle ==
    /\ candidates = << >>
    /\ chooserHyp = [name |-> "none", has_input_fields |-> FALSE, input_page |-> FALSE]
    /\ chosen = [kind |-> "idle"]

DriverInit ==
    /\ \E n \in 0..NumHyp, page \in BOOLEAN :
          hyps = [i \in 1..n |-> DriverHypothesis(i, page)]
    /\ pos = 0
    /\ possible_solutions = << >>
    /\ result = Running
    /\ queried = << >>
    /\ history = << >>
    /\ querierCount = 0
    /\ hasQueryAttr = FALSE

Init ==
    /\ min_score \in MinScoreChoices
    /\ DriverInit
    /\ ChooserIdle
    /\ HypothesesIdle
    /\ ExtrasIdle

\* one turn of the loop of solve_reference: take the next hypothesis from the
\* generator, run solve_for_fields on it, and handle what it returns or raises
TryHypothesis ==
    /\ result.kind = "running"
    /\ pos < Len(hyps)
    /\ \E resp \in BackendResponses :
          LET hypothesis == hyps[pos + 1]
              out == SolveForFields(hypothesis, resp, min_score)
          IN  /\ pos' = pos + 1
              /\ queried' = Append(queried, hypothesis.name)
              /\ querierCount' = IF hasQueryAttr THEN querierCount
                                 ELSE querierCount + 1
              /\ history' = Append(history, [name |-> hypothesis.name, out |-> out])
              /\ possible_solutions' = StashAfter(out, possible_solutions)
              /\ result' = ResultAfter(out)
    /\ UNCHANGED <<min_score, hyps, hasQueryAttr, chooserVars, hypVars, extrasVars>>

\* the generator is exhausted: look at the stash
Reconcile ==
    /\ result.kind = "running"
    /\ pos = Len(hyps)
    /\ result' = ReconcileStash(possible_solutions)
    /\ UNCHANGED <<min_score, hyps, pos, possible_solutions, queried, history,
                   querierCount, hasQueryAttr, chooserVars, hypVars, extrasVars>>

Next == TryHypothesis \/ Reconcile

Spec == Init /\ [][Next]_vars

-----------------------------------------------------------------------------
(* choose_solution on its own: every sorted candidate list within the bounds *)

DriverIdle ==
    /\ hyps = << >>
    /\ pos = 0
    /\ possible_solutions = << >>
    /\ result = [kind |-> "idle"]
    /\ queried = << >>
    /\ history = << >>
    /\ querierCount = 0
    /\ hasQueryAttr = FALSE

\* the hypotheses choose_solution may be handed: get_detail("input_fields")
\* is None, or a mapping with or without a page
ChooserHypotheses ==
    { [name |-> "h", has_input_fields |-> f, input_page |-> p] :
        f \in BOOLEAN, p \in BOOLEAN } \ 
    { [name |-> "h", has_input_fields |-> FALSE, input_page |-> TRUE] }

\* the scored list made of the ledgers l: the backend's i-th record (in
\* score order) has bibcode i
ChooserList(l) == [i \in 1..Len(l) |-> [ev |-> l[i], bibcode |-> i]]

ChooserInit ==
    /\ min_score \in MinScoreChoices
    /\ DriverIdle
    /\ ChooserIdle
    /\ HypothesesIdle
    /\ ExtrasIdle

\* one call of choose_solution(candidates, query_string, hypothesis)
RunChooser ==
    /\ chosen.kind = "idle"
    /\ \E n \in 0..MaxCands :
          \E l \in [1..n -> Ledgers], hypothesis \in ChooserHypotheses :
              /\ IsSortedByScore(ChooserList(l))
              /\ candidates' = ChooserList(l)
              /\ chooserHyp' = hypothesis
              /\ chosen' = ChooseSolution(ChooserList(l), hypothesis, min_score)
    /\ UNCHANGED <<min_score, driverVars, hypVars, extrasVars>>

ChooserNext == RunChooser

ChooserSpec == ChooserInit /\ [][ChooserNext]_vars

-----------------------------------------------------------------------------
(* hypotheses.py: strings *)

\* A Python string is the sequence of its characters; None and '' are both
\* << >> (every use in hypotheses.py and specialrules.py tests truthiness).

Digits == {"0", "1", "2", "3", "4", "5", "6", "7", "8", "9"}
UpperLetters ==
    {"A", "B", "C", "D", "E", "F", "G", "H", "I", "J", "K", "L", "M",
     "N", "O", "P", "Q", "R", "S", "T", "U", "V", "W", "X", "Y", "Z"}
Whitespace == {" "}

\* s[i], or "" past the end
CharAt(s, i) == IF i >= 1 /\ i <= Len(s) THEN s[i] ELSE ""

\* sub in s
Contains(s, sub) ==
    \E i \in 1..(Len(s) - Len(sub) + 1) : SubSeq(s, i, i + Len(sub) - 1) = sub

\* n * '.'   (the empty string when n <= 0)
Dots(n) == IF n <= 0 THEN << >> ELSE [i \in 1..n |-> "."]

\* s.split(ch)[0]
BeforeFirst(s, ch) ==
    IF \E i \in 1..Len(s) : s[i] = ch
    THEN LET k == CHOOSE i \in 1..Len(s) : s[i] = ch /\ \A j \in 1..(i-1) : s[j] # ch
         IN  SubSeq(s, 1, k - 1)
    ELSE s

RECURSIVE Strip(_)
\* s.strip()
Strip(s) ==
    IF s = << >> THEN s
    ELSE IF s[1] \in Whitespace THEN Strip(Tail(s))
    ELSE IF s[Len(s)] \in Whitespace THEN Strip(SubSeq(s, 1, Len(s) - 1))
    ELSE s

RECURSIVE SkipWhile(_, _, _)
\* the first index >= i of s whose character is not in set
SkipWhile(s, i, set) ==
    IF CharAt(s, i) \in set THEN SkipWhile(s, i + 1, set) ELSE i

\* ETAL_PAT = ((?i)[\s,]*et\.?\s*al\.?): the index just past a match of
\* et\.?\s*al\.? that starts at i, or 0 when there is none
EtalCoreEnd(s, i) ==
    IF CharAt(s, i) \in {"e", "E"} /\ CharAt(s, i + 1) \in {"t", "T"}
    THEN LET j == IF CharAt(s, i + 2) = "." THEN i + 3 ELSE i + 2
             k == SkipWhile(s, j, Whitespace)
         IN  IF CharAt(s, k) \in {"a", "A"} /\ CharAt(s, k + 1) \in {"l", "L"}
             THEN IF CharAt(s, k + 2) = "." THEN k + 3 ELSE k + 2
             ELSE 0
    ELSE 0

\* the index just past a match of ETAL_PAT that starts at i, or 0
EtalMatchEnd(s, i) == EtalCoreEnd(s, SkipWhile(s, i, Whitespace \cup {","}))

\* ETAL_PAT.search(s) is not None
EtalSearch(s) == \E i \in 1..Len(s) : EtalCoreEnd(s, i) # 0

RECURSIVE EtalSubFrom(_, _)
EtalSubFrom(s, i) ==
    IF i > Len(s) THEN << >>
    ELSE IF EtalMatchEnd(s, i) # 0 THEN EtalSubFrom(s, EtalMatchEnd(s, i))
    ELSE <<s[i]>> \o EtalSubFrom(s, i + 1)

\* ETAL_PAT.sub('', s)
EtalSub(s) == EtalSubFrom(s, 1)

RECURSIVE HyphenInitialSubFrom(_, _)
HyphenInitialSubFrom(s, i) ==
    IF i > Len(s) THEN << >>
    ELSE IF /\ s[i] = "-"
            /\ CharAt(s, i + 1) \in UpperLetters
            /\ CharAt(s, i + 2) = "."
    THEN HyphenInitialSubFrom(s, i + 3)
    ELSE <<s[i]>> \o HyphenInitialSubFrom(s, i + 1)

RECURSIVE InitialsEnd(_, _)
\* past every ( ?[A-Z]\.) group that starts at i
InitialsEnd(s, i) ==
    IF CharAt(s, i) = " " /\ CharAt(s, i + 1) \in UpperLetters /\ CharAt(s, i + 2) = "."
    THEN InitialsEnd(s, i + 3)
    ELSE IF CharAt(s, i) \in UpperLetters /\ CharAt(s, i + 1) = "."
    THEN InitialsEnd(s, i + 2)
    ELSE i

RECURSIVE InitialDotsSubFrom(_, _)
InitialDotsSubFrom(s, i) ==
    IF i > Len(s) THEN << >>
    ELSE IF s[i] = "." THEN InitialDotsSubFrom(s, InitialsEnd(s, i + 1))
    ELSE <<s[i]>> \o InitialDotsSubFrom(s, i + 1)

\* re.sub(r"\.( ?[A-Z]\.)*", "", re.sub("-[A-Z]\.", "", s)).split(";")[0].strip()
FirstAuthorOf(s) ==
    Strip(BeforeFirst(InitialDotsSubFrom(HyphenInitialSubFrom(s, 1), 1), ";"))

-----------------------------------------------------------------------------
(* hypotheses.py: what it imports (authors.py, journalfield.py, config) *)

S_ApJ      == <<"A", "p", "J">>
S_ApJL     == <<"A", "p", "J", "L">>
S_BAAS     == <<"B", "A", "A", "S">>
S_DDA      == <<"D", "D", "A">>
S_AAS      == <<"A", "A", "S">>
S_DPS      == <<"D", "P", "S">>
S_LPSC     == <<"L", "P", "S", "C">>
S_SPIE     == <<"S", "P", "I", "E">>
S_BSRSL    == <<"B", "S", "R", "S", "L">>
S_PhysRev  == <<"P", "h", "y", "s", ".", " ", "R", "e", "v", ".">>
S_PhysRevD == <<"P", "h", "y", "s", ".", " ", "R", "e", "v", ".", " ", "D">>
S_PhRv     == <<"P", "h", "R", "v">>
S_PhRvD    == <<"P", "h", "R", "v", "D">>
S_thesis   == <<"t", "h", "e", "s", "i", "s">>

\* normalize_author_list(author, initials=True): "Last, F. M.; ..." without
\* the dots of the initials
NormalizeAuthorList(author) == SelectSeq(author, LAMBDA c : c # ".")

\* get_best_bibstem_for(pub): the journals the bibstem table of this model
\* knows; nothing ('') for any other string
GetBestBibstemFor(pub) ==
    IF pub = S_ApJ THEN S_ApJ
    ELSE IF pub = S_BAAS THEN S_BAAS
    ELSE IF pub = S_LPSC THEN S_LPSC
    ELSE IF pub = S_SPIE THEN S_SPIE
    ELSE IF pub = S_PhysRev THEN S_PhRv
    ELSE IF pub = S_PhysRevD THEN S_PhRvD
    ELSE << >>

\* cook_title_string(pub): pub without its punctuation
CookTitleString(pub) == SelectSeq(pub, LAMBDA c : c \notin {".", ","})

\* config THESIS_INDICATOR_WORDS
ThesisIndicatorWords == <<S_thesis>>

\* has_thesis_indicators(refstr)
HasThesisIndicators(refstr) ==
    \E i \in 1..Len(ThesisIndicatorWords) : Contains(refstr, ThesisIndicatorWords[i])

\* "(%s)" % " or ".join(THESIS_INDICATOR_WORDS)
ThesisDisjunction == <<"(">> \o S_thesis \o <<")">>

-----------------------------------------------------------------------------
(* hypotheses.py: Hypotheses.__init__ and make_digested_record *)

\* a dict: a function from its keys; {} is << >>
Get(d, key, default) == IF key \in DOMAIN d THEN d[key] ELSE default
Put(d, key, value) ==
    [k \in (DOMAIN d) \cup {key} |-> IF k = key THEN value ELSE d[k]]

\* Hypotheses.field_mappings
field_mappings ==
    << <<"author", "authors">>, <<"pub", "journal">>, <<"pub", "book">>,
       <<"volume", "volume">>, <<"issue", "issue">>, <<"page", "page">>,
       <<"year", "year">>, <<"title", "title">>, <<"refstr", "refstr">>,
       <<"doi", "doi">>, <<"arxiv", "arxiv">> >>

RawFields == { field_mappings[i][2] : i \in 1..Len(field_mappings) }

RECURSIVE CopyFields(_, _, _)
\* the loop over field_mappings: a truthy value is copied
CopyFields(r, d, i) ==
    IF i > Len(field_mappings) THEN d
    ELSE LET value == r[field_mappings[i][2]]
         IN  CopyFields(r, IF value # << >> THEN Put(d, field_mappings[i][1], value)
                           ELSE d, i + 1)

\* re.findall(r'^([12][089]\d\d)', year) is not empty
YearRunAtStart(year) ==
    /\ Len(year) >= 4
    /\ year[1] \in {"1", "2"}
    /\ year[2] \in {"0", "8", "9"}
    /\ year[3] \in Digits
    /\ year[4] \in Digits

\* JOURNAL_LETTER_ATTACHED_VOLUME = ^([ABCDEFGIT])\d+$
LetterAttachedVolume(volume) ==
    /\ Len(volume) >= 2
    /\ volume[1] \in {"A", "B", "C", "D", "E", "F", "G", "I", "T"}
    /\ \A i \in 2..Len(volume) : volume[i] \in Digits

\* the author part: "et al." removed
DigestAuthor(d) ==
    IF "author" \in DOMAIN d THEN Put(d, "author", EtalSub(d["author"])) ELSE d

\* the year part raises IndexError when findall finds nothing
YearFails(d) ==
    /\ "year" \in DOMAIN d
    /\ Len(d["year"]) > 4
    /\ ~YearRunAtStart(d["year"])

DigestYear(d) ==
    IF "year" \in DOMAIN d /\ Len(d["year"]) > 4
    THEN Put(d, "year", SubSeq(d["year"], 1, 4))
    ELSE d

DigestPage(d) ==
    IF \E i \in 1..Len(Get(d, "page", << >>)) : d["page"][i] = "-"
    THEN Put(d, "page", BeforeFirst(d["page"], "-"))
    ELSE d

\* a digestion that attaches the letter to pub but leaves it on the volume
DigestVolume_KeepsLetter(d) ==
    IF /\ "volume" \in DOMAIN d
       /\ "pub" \in DOMAIN d
       /\ LetterAttachedVolume(d["volume"])
    THEN Put(d, "pub", d["pub"] \o <<" ", d["volume"][1]>>)
    ELSE d

DigestVolume(d) ==
    IF /\ "volume" \in DOMAIN d
       /\ "pub" \in DOMAIN d
       /\ LetterAttachedVolume(d["volume"])
    THEN Put(Put(d, "pub", d["pub"] \o <<" ", d["volume"][1]>>),
             "volume", Tail(d["volume"]))
    ELSE d

\* self.digested_record after make_digested_record (when it does not raise)
MakeDigestedRecord(r) ==
    DigestVolume(DigestPage(DigestYear(DigestAuthor(CopyFields(r, << >>, 1)))))

\* self.normalized_authors after make_digested_record
NormalizedAuthorsOf(r) ==
    LET d == DigestAuthor(CopyFields(r, << >>, 1))
    IN  IF "author" \in DOMAIN d THEN NormalizeAuthorList(d["author"]) ELSE << >>

\* has_keys(*keys), lacks_keys(*keys)
HasKeys(d, keys) == \A k \in keys : Get(d, k, << >>) # << >>
LacksKeys(d, keys) == \A k \in keys : Get(d, k, << >>) = << >>

\* construct_bibcode(): the value stored in digested_record["bibcode"]
ConstructBibcode(d, authors) ==
    LET year == d["year"]
        bibstem == GetBestBibstemFor(d["pub"])
        journal == bibstem \o Dots(5 - Len(bibstem))
        vol == Get(d, "volume", << >>)
        volume == Dots(4 - Len(vol)) \o vol
        page_qualifier == Get(d, "qualifier", <<".">>)
        pg == Get(d, "page", << >>)
        pg4 == IF Len(pg) > 4 THEN SubSeq(pg, 1, 4) ELSE pg
        page == Dots(4 - Len(pg4)) \o pg4
        initial == IF authors # << >> THEN <<authors[1]>> ELSE <<".">>
    IN  year \o journal \o volume \o page_qualifier \o page \o initial

-----------------------------------------------------------------------------
(* specialrules.py: the journal-specific hypotheses *)

\* Hypothesis(name, hints, get_score_function, **details); the scorer is
\* named, not modelled
Hypothesis(name, hints, scorer, details) ==
    [name |-> name, hints |-> hints, get_score_function |-> scorer,
     details |-> details]

\* the detail input_fields=self.digested_record is the dict itself, not a
\* copy: whoever reads it later sees the keys added in between
SharedRecord == [shared |-> TRUE, fields |-> << >>]
OwnDict(d) == [shared |-> FALSE, fields |-> d]

\* change_dict(base, del_keys, **kwargs)
change_dict(base, del_keys, kwargs) ==
    [k \in ((DOMAIN base) \ del_keys) \cup (DOMAIN kwargs) |->
        IF k \in DOMAIN kwargs THEN kwargs[k] ELSE base[k]]

RECURSIVE DictOfTruthy(_, _, _)
\* dict((key, val) for key, val in pairs if val)
DictOfTruthy(pairs, i, d) ==
    IF i > Len(pairs) THEN d
    ELSE DictOfTruthy(pairs, i + 1,
                      IF pairs[i][2] # << >> THEN Put(d, pairs[i][1], pairs[i][2]) ELSE d)

\* get_conf_series_indicators(): the patterns that are plain words. The
\* other eleven patterns match none of the journal names of RefRecords.
ConfSeriesIndicators == << <<S_SPIE, "SPIE">>, <<S_BSRSL, "BSRSL">> >>

ConfSeriesName(stem) ==
    IF stem = "SPIE" THEN "fielded-confser-SPIE" ELSE "fielded-confser-BSRSL"

ConfSeriesStem(stem) == IF stem = "SPIE" THEN S_SPIE ELSE S_BSRSL

RECURSIVE ConfSeriesHypotheses(_, _, _)
ConfSeriesHypotheses(journal, input_fields, i) ==
    IF i > Len(ConfSeriesIndicators) THEN << >>
    ELSE (IF Contains(journal, ConfSeriesIndicators[i][1])
          THEN << Hypothesis(ConfSeriesName(ConfSeriesIndicators[i][2]),
                     change_dict(input_fields, {"pub"},
                                 [bibstem |-> ConfSeriesStem(ConfSeriesIndicators[i][2])]),
                     "get_basic_score_for_input_fields",
                     [input_fields |-> OwnDict(input_fields)]) >>
          ELSE << >>)
         \o ConfSeriesHypotheses(journal, input_fields, i + 1)

\* a BAAS hypothesis that keeps the page in its hints
BaasHypothesis_KeepsPage(name, stem, input_fields) ==
    Hypothesis(name,
        change_dict(input_fields, {"volume", "pub"}, [bibstem |-> stem]),
        "get_score_for_baas_match",
        [input_fields |-> OwnDict(input_fields), expected_bibstem |-> stem])

BaasHypothesis(name, stem, input_fields) ==
    Hypothesis(name,
        change_dict(input_fields, {"volume", "page", "pub"}, [bibstem |-> stem]),
        "get_score_for_baas_match",
        [input_fields |-> OwnDict(input_fields), expected_bibstem |-> stem])

\* iter_journal_specific_hypotheses(...): everything it yields, in order
iter_journal_specific_hypotheses(bibstem, year, author, journal, volume, page) ==
    LET input_fields ==
            DictOfTruthy(<< <<"author", author>>, <<"bibstem", bibstem>>,
                            <<"volume", volume>>, <<"year", year>>,
                            <<"page", page>>, <<"pub", journal>> >>, 1, << >>)
    IN  (IF bibstem = S_BAAS
         THEN << BaasHypothesis("extra-BAAS->DDA", S_DDA, input_fields),
                 BaasHypothesis("extra-BAAS->AAS", S_AAS, input_fields),
                 BaasHypothesis("extra-BAAS->DPS", S_DPS, input_fields) >>
         ELSE << >>)
        \o
        (IF bibstem = S_LPSC
         THEN << Hypothesis("LPSC-ignore-volume",
                     change_dict(input_fields, {"volume", "pub"}, << >>),
                     "get_basic_score_for_input_fields",
                     [input_fields |-> OwnDict(change_dict(input_fields, {"volume"}, << >>)),
                      expected_bibstem |-> S_LPSC]) >>
         ELSE << >>)
        \o
        (IF bibstem = S_ApJ
         THEN << Hypothesis("extra-ApJ->ApJL",
                     change_dict(input_fields, {"pub"}, [bibstem |-> S_ApJL]),
                     "get_serial_score_for_input_fields",
                     [input_fields |-> OwnDict(input_fields)]) >>
         ELSE << >>)
        \o
        (IF journal # << >>
         THEN ConfSeriesHypotheses(journal, input_fields, 1)
         ELSE << >>)

-----------------------------------------------------------------------------
(* hypotheses.py: iter_hypotheses *)

\* ETAL_PAT.search(str(self.ref)): the keys and the punctuation of the
\* printed dict hold no "et al", so a match lies inside one value
RefHasEtal(r) == \E f \in RawFields : EtalSearch(r[f])

\* details that drop the computed flag
SerialDetails_EtalFalse(d, authors, etal) ==
    [input_fields |-> SharedRecord,
     page_qualifier |-> Get(d, "qualifier", << >>),
     has_etal |-> FALSE,
     normalized_authors |-> authors]

\* the details most fielded hypotheses carry
SerialDetails(d, authors, etal) ==
    [input_fields |-> SharedRecord,
     page_qualifier |-> Get(d, "qualifier", << >>),
     has_etal |-> etal,
     normalized_authors |-> authors]

\* the details of the hypotheses that hard-code has_etal=False
FixedDetails ==
    [input_fields |-> SharedRecord, page_qualifier |-> << >>,
     has_etal |-> FALSE, normalized_authors |-> << >>]

\* the cascade: the generator's steps in source order
CascadeSteps ==
    << "doi", "arxiv", "bibcode", "auth_year_volume_page", "auth_pub_year",
       "title", "book", "thesis", "extras", "author_page", "first_author",
       "first_author_fuzzy", "year_fuzzy", "no_author", "no_year" >>

StepIndex(pc) == CHOOSE i \in 1..Len(CascadeSteps) : CascadeSteps[i] = pc

\* a generator that tries author/year/volume/page before the bibcode
StepAfter_BibcodeLate(pc) ==
    IF pc = "arxiv" THEN "auth_year_volume_page"
    ELSE IF pc = "auth_year_volume_page" THEN "bibcode"
    ELSE IF pc = "bibcode" THEN "auth_pub_year"
    ELSE IF StepIndex(pc) = Len(CascadeSteps) THEN "done"
    ELSE CascadeSteps[StepIndex(pc) + 1]

\* the generator's position after the step at pc
StepAfter(pc) ==
    IF StepIndex(pc) = Len(CascadeSteps) THEN "done"
    ELSE CascadeSteps[StepIndex(pc) + 1]

\* ---- the reference records the generator is run on --------------------

AuthorsChoices == { << >>, <<"S", "m", "i", "t", "h", ",", " ", "J", ".">>,
                    <<"S", "m", "i", "t", "h", ",", " ", "J", ".", ",", " ", "e", "t", " ", "a", "l", ".">> }
YearChoices == { << >>, <<"2", "0", "0", "1">>, <<"9", "9">>, <<"2", "0", "0", "1", "a">>, <<"a", "b", "c", "d", "e">> }
JournalBookChoices ==
    { [journal |-> j, book |-> << >>] :
          j \in { << >>, S_ApJ, S_BAAS, S_LPSC, S_PhysRev, S_SPIE } }
    \cup { [journal |-> j, book |-> <<"S", "t", "a", "r", "s">>] : j \in { << >>, S_ApJ } }
VolumeChoices == { << >>, <<"5", "5", "0">>, <<"D", "8", "1">>, <<"1", "2", "3", "4", "5">> }
PageChoices == { << >>, <<"L", "1">>, <<"1", "2", "3", "4", "5", "-", "5", "0">> }
TitleChoices == { << >>, <<"A", "x", "i", "v", "e", "r", "s", "e">> }
RefstrChoices == { << >>, <<"P", "h", "D", " ", "t", "h", "e", "s", "i", "s">> }
DoiChoices == { << >>, <<"1", "0", ".", "1", "/", "x">> }
ArxivChoices == { << >>, <<"1", "0", "0", "1", ".", "1">> }

\* a reference: every key of field_mappings, << >> where the field is missing
RefRecord(authors, year, jb, volume, page, title, refstr, doi, arxiv) ==
    [authors |-> authors, journal |-> jb.journal, book |-> jb.book,
     volume |-> volume, issue |-> << >>, page |-> page, year |-> year,
     title |-> title, refstr |-> refstr, doi |-> doi, arxiv |-> arxiv]

\* ---- the constructor --------------------------------------------------

\* Hypotheses(ref): __init__ runs make_digested_record, which may raise
NewHypotheses ==
    /\ gen_pc = "new"
    /\ IF YearFails(CopyFields(ref, << >>, 1))
       THEN /\ gen_pc' = "failed"
            /\ UNCHANGED <<digested_record, normalized_authors, normalized_first_author>>
       ELSE /\ gen_pc' = CascadeSteps[1]
            /\ digested_record' = MakeDigestedRecord(ref)
            /\ normalized_authors' = NormalizedAuthorsOf(ref)
            /\ normalized_first_author' = FirstAuthorOf(NormalizedAuthorsOf(ref))
    /\ UNCHANGED <<ref, has_etal, yielded>>
    /\ UNCHANGED <<min_score, driverVars, chooserVars, extrasVars>>

\* ---- the generator, one action per step of the cascade ----------------

\* a step that leaves the object alone: it yields hyp when cond holds
PlainStep(pc, cond, hyp) ==
    /\ gen_pc = pc
    /\ gen_pc' = StepAfter(pc)
    /\ yielded' = IF cond THEN Append(yielded, hyp) ELSE yielded
    /\ UNCHANGED <<ref, digested_record, normalized_authors,
                   normalized_first_author, has_etal>>
    /\ UNCHANGED <<min_score, driverVars, chooserVars, extrasVars>>

\* lines 125-136: the generator starts, then the DOI step
StepDOI ==
    /\ gen_pc = "doi"
    /\ gen_pc' = StepAfter("doi")
    /\ has_etal' = RefHasEtal(ref)
    /\ yielded' = IF HasKeys(digested_record, {"doi"})
                  THEN Append(yielded,
                           Hypothesis("fielded-DOI", [doi |-> digested_record["doi"]],
                               "get_score_for_reference_identifier",
                               [input_fields |-> SharedRecord]))
                  ELSE yielded
    /\ UNCHANGED <<ref, digested_record, normalized_authors, normalized_first_author>>
    /\ UNCHANGED <<min_score, driverVars, chooserVars, extrasVars>>

\* an arxiv step that does not ask whether there is an arxiv id
StepArxiv_Unconditional ==
    PlainStep("arxiv", TRUE,
        Hypothesis("fielded-arxiv", [arxiv |-> Get(digested_record, "arxiv", << >>)],
            "get_score_for_reference_identifier",
            [input_fields |-> SharedRecord]))

StepArxiv ==
    PlainStep("arxiv", HasKeys(digested_record, {"arxiv"}),
        Hypothesis("fielded-arxiv", [arxiv |-> digested_record["arxiv"]],
            "get_score_for_reference_identifier",
            [input_fields |-> SharedRecord]))

\* lines 146-151: construct_bibcode() stores the bibcode in the record
StepBibcode ==
    /\ gen_pc = "bibcode"
    /\ gen_pc' = StepAfter("bibcode")
    /\ IF HasKeys(digested_record, {"author", "year", "pub"})
       THEN LET bibcode == ConstructBibcode(digested_record, normalized_authors)
            IN  /\ digested_record' = Put(digested_record, "bibcode", bibcode)
                /\ yielded' = Append(yielded,
                       Hypothesis("fielded-bibcode", [bibcode |-> bibcode],
                           "get_score_for_reference_identifier",
                           [input_fields |-> SharedRecord]))
       ELSE UNCHANGED <<digested_record, yielded>>
    /\ UNCHANGED <<ref, normalized_authors, normalized_first_author, has_etal>>
    /\ UNCHANGED <<min_score, driverVars, chooserVars, extrasVars>>

StepAuthYearVolumePage ==
    PlainStep("auth_year_volume_page",
        HasKeys(digested_record, {"author", "year", "volume", "page"}),
        Hypothesis("fielded-auth/year/volume/page",
            [author |-> normalized_authors, year |-> digested_record["year"],
             volume |-> digested_record["volume"], page |-> digested_record["page"]],
            "get_serial_score_for_input_fields",
            SerialDetails(digested_record, normalized_authors, has_etal)))

StepAuthPubYear ==
    PlainStep("auth_pub_year",
        HasKeys(digested_record, {"author", "pub", "year"}),
        Hypothesis("fielded-auth/pub/year",
            [author |-> normalized_authors,
             bibstem |-> GetBestBibstemFor(digested_record["pub"]),
             year |-> digested_record["year"]],
            "get_serial_score_for_input_fields",
            SerialDetails(digested_record, normalized_authors, has_etal)))

StepTitle ==
    PlainStep("title",
        HasKeys(digested_record, {"author", "year", "title"}),
        Hypothesis("fielded-title",
            [first_author_norm |-> normalized_first_author,
             year |-> digested_record["year"], title |-> digested_record["title"]],
            "get_serial_score_for_input_fields",
            FixedDetails))

\* lines 192-195: the cleaned title, reverted when shorter than 15
CleanedTitle(pub) ==
    IF Len(CookTitleString(pub)) < 15 THEN pub ELSE CookTitleString(pub)

StepBook ==
    PlainStep("book",
        /\ HasKeys(digested_record, {"author", "pub", "year"})
        /\ LacksKeys(digested_record, {"title"}),
        Hypothesis("fielded-book",
            [author |-> normalized_authors,
             title |-> CleanedTitle(digested_record["pub"]),
             year |-> digested_record["year"]],
            "get_book_score_for_input_fields",
            [input_fields |-> SharedRecord,
             page_qualifier |-> Get(digested_record, "qualifier", << >>),
             has_etal |-> FALSE,
             normalized_authors |-> normalized_authors]))

StepThesis ==
    PlainStep("thesis",
        /\ HasKeys(digested_record, {"author", "year", "refstr"})
        /\ LacksKeys(digested_record, {"volume", "page"})
        /\ HasThesisIndicators(digested_record["refstr"]),
        Hypothesis("fielded-thesis",
            [author |-> normalized_authors, pub_escaped |-> ThesisDisjunction,
             year |-> digested_record["year"]],
            "get_thesis_score_for_input_fields",
            [input_fields |-> SharedRecord,
             normalized_authors |-> normalized_authors]))

\* lines 225-235: the bibstem is stored in the record, then every
\* journal-specific hypothesis is passed on
StepExtras ==
    /\ gen_pc = "extras"
    /\ gen_pc' = StepAfter("extras")
    /\ IF "pub" \in DOMAIN digested_record
       THEN LET bibstem == GetBestBibstemFor(digested_record["pub"])
            IN  /\ digested_record' = Put(digested_record, "bibstem", bibstem)
                /\ yielded' = yielded \o
                       iter_journal_specific_hypotheses(
                           bibstem,
                           Get(digested_record, "year", << >>),
                           normalized_authors,
                           digested_record["pub"],
                           Get(digested_record, "volume", << >>),
                           Get(digested_record, "page", << >>))
       ELSE UNCHANGED <<digested_record, yielded>>
    /\ UNCHANGED <<ref, normalized_authors, normalized_first_author, has_etal>>
    /\ UNCHANGED <<min_score, driverVars, chooserVars, extrasVars>>

StepAuthorPage ==
    PlainStep("author_page",
        /\ HasKeys(digested_record, {"author"})
        /\ Len(Get(digested_record, "page", << >>)) > 2,
        Hypothesis("fielded-author/page",
            [author |-> normalized_authors,
             page |-> BeforeFirst(digested_record["page"], "-")],
            "get_serial_score_for_input_fields",
            [input_fields |-> SharedRecord]))

StepFirstAuthor ==
    PlainStep("first_author",
        HasKeys(digested_record, {"author", "year"}),
        Hypothesis("fielded-first-author-norm/year",
            [first_author_norm |-> normalized_first_author,
             year |-> digested_record["year"]],
            "get_serial_score_for_input_fields",
            SerialDetails(digested_record, normalized_authors, has_etal)))

StepFirstAuthorFuzzy ==
    PlainStep("first_author_fuzzy",
        HasKeys(digested_record, {"author", "year"}),
        Hypothesis("fielded-first-author-norm~/year",
            ("first_author_norm~" :> normalized_first_author)
                @@ ("year" :> digested_record["year"]),
            "get_serial_score_for_input_fields",
            SerialDetails(digested_record, normalized_authors, has_etal)))

StepYearFuzzy ==
    PlainStep("year_fuzzy",
        HasKeys(digested_record, {"author", "year"}),
        Hypothesis("fielded-author-norm/year~",
            ("author" :> normalized_authors)
                @@ ("year~" :> digested_record["year"]),
            "get_serial_score_for_input_fields",
            SerialDetails(digested_record, normalized_authors, has_etal)))

\* a no-author step that does not ask for the year
StepNoAuthor_IgnoresYear ==
    PlainStep("no_author",
        HasKeys(digested_record, {"pub", "volume", "page"}),
        Hypothesis("fielded-no-author",
            [bibstem |-> GetBestBibstemFor(digested_record["pub"]),
             year |-> Get(digested_record, "year", << >>),
             volume |-> digested_record["volume"],
             page |-> Get(digested_record, "qualifier", << >>) \o digested_record["page"]],
            "get_serial_score_for_input_fields",
            FixedDetails))

StepNoAuthor ==
    PlainStep("no_author",
        HasKeys(digested_record, {"year", "pub", "volume", "page"}),
        Hypothesis("fielded-no-author",
            [bibstem |-> GetBestBibstemFor(digested_record["pub"]),
             year |-> digested_record["year"],
             volume |-> digested_record["volume"],
             page |-> Get(digested_record, "qualifier", << >>) \o digested_record["page"]],
            "get_serial_score_for_input_fields",
            FixedDetails))

StepNoYear ==
    PlainStep("no_year",
        HasKeys(digested_record, {"author", "pub", "volume", "page"}),
        Hypothesis("fielded-no-year",
            [author |-> normalized_authors,
             bibstem |-> GetBestBibstemFor(digested_record["pub"]),
             volume |-> digested_record["volume"],
             page |-> digested_record["page"]],
            "get_serial_score_for_input_fields",
            SerialDetails(digested_record, normalized_authors, has_etal)))

HypInit ==
    /\ min_score = CHOOSE m \in MinScoreChoices : TRUE
    /\ DriverIdle
    /\ ChooserIdle
    /\ ExtrasIdle
    /\ \E authors \in AuthorsChoices, year \in YearChoices,
          jb \in JournalBookChoices, volume \in VolumeChoices,
          page \in PageChoices, title \in TitleChoices,
          refstr \in RefstrChoices, doi \in DoiChoices, arxiv \in ArxivChoices :
            ref = RefRecord(authors, year, jb, volume, page, title, refstr, doi, arxiv)
    /\ digested_record = << >>
    /\ normalized_authors = << >>
    /\ normalized_first_author = << >>
    /\ has_etal = FALSE
    /\ gen_pc = "new"
    /\ yielded = << >>

HypNext ==
    \/ NewHypotheses
    \/ StepDOI
    \/ StepArxiv
    \/ StepBibcode
    \/ StepAuthYearVolumePage
    \/ StepAuthPubYear
    \/ StepTitle
    \/ StepBook
    \/ StepThesis
    \/ StepExtras
    \/ StepAuthorPage
    \/ StepFirstAuthor
    \/ StepFirstAuthorFuzzy
    \/ StepYearFuzzy
    \/ StepNoAuthor
    \/ StepNoYear

HypothesesSpec == HypInit /\ [][HypNext]_vars

-----------------------------------------------------------------------------
(* specialrules.py: iter_journal_specific_hypotheses called on its own *)

\* the arguments it is called with: bibstem and journal are independent
\* parameters, and each of them may be None
BibstemArgs == { << >>, S_BAAS, S_LPSC, S_ApJ, S_PhRv }
JournalArgs == { << >>, S_BAAS, S_LPSC, S_ApJ, S_SPIE, S_BAAS \o <<" ">> \o S_SPIE }
YearArgs == { << >>, <<"2", "0", "0", "1">> }
AuthorArgs == { << >>, <<"S", "m", "i", "t", "h", ",", " ", "J">> }
VolumeArgs == { << >>, <<"3", "3">> }
PageArgs == { << >>, <<"8", "0", "2">> }

ExtrasInit ==
    /\ min_score = CHOOSE m \in MinScoreChoices : TRUE
    /\ DriverIdle
    /\ ChooserIdle
    /\ HypothesesIdle
    /\ ExtrasIdle

\* list(iter_journal_specific_hypotheses(bibstem, year, author, journal,
\* volume, page, full_reference))
CallExtras ==
    /\ ~extras_called
    /\ extras_called' = TRUE
    /\ \E bibstem \in BibstemArgs, year \in YearArgs, author \in AuthorArgs,
          journal \in JournalArgs, volume \in VolumeArgs, page \in PageArgs :
          /\ extras_args' = [bibstem |-> bibstem, year |-> year, author |-> author,
                             journal |-> journal, volume |-> volume, page |-> page]
          /\ extras_out' = iter_journal_specific_hypotheses(
                               bibstem, year, author, journal, volume, page)
    /\ UNCHANGED <<min_score, driverVars, chooserVars, hypVars>>

ExtrasNext == CallExtras

ExtrasSpec == ExtrasInit /\ [][ExtrasNext]_vars

-----------------------------------------------------------------------------
(* Properties of solve_reference *)

LastOut == history[Len(history)].out

NonFatal == {"NoSolution", "Overflow", "Exception", "Undecidable"}

\* C1: a Solution from one hypothesis is returned at once: it is the last
\* hypothesis evaluated, no later hypothesis was handed to solve_for_fields,
\* every earlier one failed, and the returned rationale is that hypothesis's
\* name
C1_ShortCircuit ==
    \A i \in 1..Len(history) :
        history[i].out.kind = "Solution" =>
            /\ i = Len(history)
            /\ result = history[i].out
            /\ result.rationale = hyps[i].name
            /\ pos = i
            /\ queried = [j \in 1..i |-> hyps[j].name]
            /\ \A j \in 1..(i-1) : history[j].out.kind \in NonFatal

C1_Witness ==
    /\ result.kind = "Solution"
    /\ Len(history) = 2
    /\ LastOut.kind = "Solution"
    /\ Len(hyps) > 2

\* C2: NoSolution, Overflow, Undecidable or an unexpected exception in one
\* hypothesis never ends the resolution: the driver is still running (or has
\* already gone on to the next hypothesis, in generator order); before the
\* generator is exhausted only a returned Solution or a KeyboardInterrupt ends
\* it, and a KeyboardInterrupt always does
C2_OnlyCancellationAborts ==
    /\ queried = [j \in 1..pos |-> hyps[j].name]
    /\ Len(history) = pos
    /\ \A i \in 1..Len(history) :
          /\ (history[i].out.kind \in NonFatal /\ i < Len(hyps))
                => (i < Len(history) \/ result.kind = "running")
          /\ history[i].out.kind = "KeyboardInterrupt"
                => (i = Len(history) /\ result.kind = "KeyboardInterrupt")
    /\ (result.kind # "running" /\ pos < Len(hyps))
          => (pos > 0 /\ LastOut.kind \in {"Solution", "KeyboardInterrupt"})
    /\ result.kind = "KeyboardInterrupt"
          => (pos > 0 /\ LastOut.kind = "KeyboardInterrupt")

C2_Witness ==
    /\ Len(history) = 3
    /\ history[1].out.kind = "Exception"
    /\ history[2].out.kind = "Overflow"
    /\ history[3].out.kind = "NoSolution"
    /\ result.kind = "NoSolution"

\* the loop ended by exhausting the generator and the stash was looked at
Reconciled ==
    /\ result.kind \in {"Solution", "NoSolution"}
    /\ pos = Len(hyps)
    /\ (pos > 0 => LastOut.kind \in NonFatal)

StashBibcodes == { possible_solutions[i][2] : i \in 1..Len(possible_solutions) }

\* the best score stashed for bibcode b
GroupScore(b) ==
    LET mine == { possible_solutions[i][1] :
                    i \in { j \in 1..Len(possible_solutions) :
                              possible_solutions[j][2] = b } }
    IN  CHOOSE s \in mine : \A t \in mine : s >= t

\* the bibcodes whose group has the best score of all
BestGroups ==
    { b \in StashBibcodes : \A c \in StashBibcodes : GroupScore(b) >= GroupScore(c) }

\* C3: with at least two distinct bibcodes stashed and the best group
\* strictly ahead of the runner-up, the Solution returned after exhaustion
\* has the bibcode of the best group
C3_BestGroupReturned ==
    (/\ Reconciled
     /\ Cardinality(StashBibcodes) >= 2
     /\ Cardinality(BestGroups) = 1)
        => /\ result.kind = "Solution"
           /\ result.bibcode \in BestGroups

\* C4: after exhaustion a Solution comes from the stash only if one distinct
\* bibcode was stashed or the best group is strictly ahead; with two bibcodes
\* sharing the best score, or an empty stash, the outcome is
\* NoSolution("Hypotheses exhausted")
C4_TiesGiveUp ==
    Reconciled =>
        /\ result.kind = "Solution"
              => (Cardinality(StashBibcodes) = 1 \/ Cardinality(BestGroups) = 1)
        /\ (Cardinality(BestGroups) >= 2 \/ possible_solutions = << >>)
              => result = Exhausted

RECURSIVE PayloadsOf(_, _)
PayloadsOf(h, n) ==
    IF n = 0 THEN << >>
    ELSE PayloadsOf(h, n - 1) \o
         (IF h[n].out.kind = "Undecidable" THEN h[n].out.considered ELSE << >>)

\* C7: the stash is the concatenation, in hypothesis order, of the pairs the
\* Undecidable outcomes carried (other outcomes add nothing); after an
\* Undecidable the driver goes on, and that hypothesis is never the rationale
\* of the returned Solution
C7_StashIsUndecidablePayloads ==
    /\ possible_solutions = PayloadsOf(history, Len(history))
    /\ \A i \in 1..Len(history) :
          history[i].out.kind = "Undecidable" =>
              /\ ~(result.kind = "Solution" /\ result.rationale = history[i].name)
              /\ (i = Len(history) /\ i < Len(hyps)) => result.kind = "running"

C7_Witness ==
    /\ Len(history) = 3
    /\ history[1].out.kind = "Undecidable"
    /\ history[1].out.considered # << >>
    /\ history[2].out.kind = "NoSolution"
    /\ history[3].out.kind = "Undecidable"
    /\ history[3].out.considered # << >>
    /\ Len(possible_solutions) = 2
    /\ possible_solutions[1] # possible_solutions[2]

-----------------------------------------------------------------------------
(* Properties of choose_solution *)

\* the candidates that clear the count-weighted threshold
Survivors == { i \in 1..Len(candidates) : ClearsFirstRound(candidates[i].ev, min_score) }

\* the survivors that attain the best score among the survivors
TopSurvivors ==
    { i \in Survivors :
        \A j \in Survivors : GetScore(candidates[i].ev) >= GetScore(candidates[j].ev) }

\* C5 (as stated): the chooser returns a candidate without a veto, raises
\* Undecidable or raises NoSolution; it never returns a candidate whose
\* ledger has a veto
C5_NeverReturnsVetoed ==
    chosen.kind # "idle" =>
        /\ chosen.kind \in {"accept", "Undecidable", "NoSolution"}
        /\ chosen.kind = "accept" => ~HasVeto(chosen.ev)

\* C5 (amended): the chooser returns a candidate, raises Undecidable or
\* raises NoSolution; a returned candidate is one of the candidates that
\* clear the count-weighted threshold (its ledger may hold a veto), and a
\* candidate below the threshold is never returned
C5_ReturnsOnlySurvivors ==
    chosen.kind # "idle" =>
        /\ chosen.kind \in {"accept", "Undecidable", "NoSolution"}
        /\ chosen.kind = "accept" =>
              \E i \in Survivors : /\ candidates[i].ev = chosen.ev
                                   /\ candidates[i].bibcode = chosen.bibcode
        /\ Survivors = {} => chosen.kind # "accept"

C5_Witness ==
    /\ chosen.kind = "accept"
    /\ HasVeto(chosen.ev)
    /\ Len(candidates) = 2

\* C6: with more than one candidate over the threshold, the one candidate
\* attaining the best score among them is accepted; when two or more attain
\* it, Undecidable is raised and nothing is accepted
C6_UniqueBestOrUndecidable ==
    (chosen.kind # "idle" /\ Cardinality(Survivors) > 1) =>
        IF Cardinality(TopSurvivors) = 1
        THEN /\ chosen.kind = "accept"
             /\ \A i \in TopSurvivors : /\ chosen.ev = candidates[i].ev
                                        /\ chosen.bibcode = candidates[i].bibcode
        ELSE chosen.kind = "Undecidable"

C6_Witness ==
    /\ chosen.kind = "Undecidable"
    /\ Cardinality(Survivors) > 1
    /\ Cardinality(TopSurvivors) > 1

-----------------------------------------------------------------------------
(* Properties of iter_hypotheses and construct_bibcode *)

\* the names iter_journal_specific_hypotheses gives its hypotheses
ExtraNames ==
    {"extra-BAAS->DDA", "extra-BAAS->AAS", "extra-BAAS->DPS",
     "LPSC-ignore-volume", "extra-ApJ->ApJL",
     "fielded-confser-SPIE", "fielded-confser-BSRSL"}

\* the priority order: DOI, arxiv, bibcode, author/year/volume/page,
\* author/bibstem/year, title, book, thesis, extras, author/page,
\* first-author/year exact and fuzzy, approximate year, no-author, no-year
PriorityOrder ==
    << {"fielded-DOI"}, {"fielded-arxiv"}, {"fielded-bibcode"},
       {"fielded-auth/year/volume/page"}, {"fielded-auth/pub/year"},
       {"fielded-title"}, {"fielded-book"}, {"fielded-thesis"}, ExtraNames,
       {"fielded-author/page"}, {"fielded-first-author-norm/year"},
       {"fielded-first-author-norm~/year"}, {"fielded-author-norm/year~"},
       {"fielded-no-author"}, {"fielded-no-year"} >>

PriorityRank(name) ==
    IF \E r \in 1..Len(PriorityOrder) : name \in PriorityOrder[r]
    THEN CHOOSE r \in 1..Len(PriorityOrder) : name \in PriorityOrder[r]
    ELSE 0

GeneratorExhausted == gen_pc = "done"

NoTitleAuthorYear ==
    /\ gen_pc \notin {"idle", "new"}
    /\ ref.title = << >>
    /\ ref.authors = << >>
    /\ ref.year = << >>

\* C8: the hypotheses come out in the priority order: every yielded name
\* has a place in the order, of two yielded hypotheses the earlier one never
\* has a later place, and a name is yielded at most once (so the record's
\* set of applicable steps fixes the whole sequence).
C8_PriorityOrderRespected ==
    /\ \A i \in 1..Len(yielded) : PriorityRank(yielded[i].name) # 0
    /\ \A i, j \in 1..Len(yielded) :
          i < j =>
             /\ PriorityRank(yielded[i].name) <= PriorityRank(yielded[j].name)
             /\ yielded[i].name # yielded[j].name
             /\ PriorityRank(yielded[i].name) = PriorityRank(yielded[j].name)
                   => yielded[i].name \in ExtraNames

\* C8 witness: the generator ran to its end on Smith, J. / 2001 / ApJ /
\* 550 / L1 and the bibcode hypothesis came out before the
\* author/year/volume/page one.
C8_Witness ==
    /\ GeneratorExhausted
    /\ ref.authors = <<"S", "m", "i", "t", "h", ",", " ", "J", ".">>
    /\ ref.year = <<"2", "0", "0", "1">>
    /\ ref.journal = S_ApJ
    /\ ref.volume = <<"5", "5", "0">>
    /\ ref.page = <<"L", "1">>
    /\ \E i, j \in 1..Len(yielded) :
          /\ i < j
          /\ yielded[i].name = "fielded-bibcode"
          /\ yielded[j].name = "fielded-auth/year/volume/page"

\* C9 (as stated): a reference with no title, no author and no year makes
\* the generator yield nothing, and the constructor does not raise.
C9_YieldsNothing ==
    NoTitleAuthorYear => (yielded = << >> /\ gen_pc # "failed")

\* C9 (amended): a reference with no title, no author and no year never
\* raises and yields only fielded-DOI, fielded-arxiv and journal-specific
\* extras: fielded-DOI exactly when it has a doi, fielded-arxiv exactly when
\* it has an arxiv id, extras only when it has a journal or a book; with
\* none of these it yields nothing.
C9_OnlyIdentifiersAndExtras ==
    NoTitleAuthorYear =>
        /\ gen_pc # "failed"
        /\ \A i \in 1..Len(yielded) :
              yielded[i].name \in {"fielded-DOI", "fielded-arxiv"} \cup ExtraNames
        /\ (\E i \in 1..Len(yielded) : yielded[i].name = "fielded-DOI")
              => ref.doi # << >>
        /\ (\E i \in 1..Len(yielded) : yielded[i].name = "fielded-arxiv")
              => ref.arxiv # << >>
        /\ (\E i \in 1..Len(yielded) : yielded[i].name \in ExtraNames)
              => (ref.journal # << >> \/ ref.book # << >>)
        /\ GeneratorExhausted =>
              /\ ref.doi # << >> => \E i \in 1..Len(yielded) : yielded[i].name = "fielded-DOI"
              /\ ref.arxiv # << >> => \E i \in 1..Len(yielded) : yielded[i].name = "fielded-arxiv"

\* C9 witness: the generator ran to its end on a reference with no title,
\* author or year that has a doi, a volume, a page and a journal, and it
\* yielded a DOI hypothesis and a journal-specific extra.
C9_Witness ==
    /\ NoTitleAuthorYear
    /\ GeneratorExhausted
    /\ ref.volume # << >>
    /\ ref.page # << >>
    /\ \E i \in 1..Len(yielded) : yielded[i].name = "fielded-DOI"
    /\ \E i \in 1..Len(yielded) : yielded[i].name \in ExtraNames

\* C10: whenever construct_bibcode has run, the bibcode it stored has
\* exactly 19 characters.
C10_BibcodeHas19Chars ==
    "bibcode" \in DOMAIN digested_record => Len(digested_record["bibcode"]) = 19

-----------------------------------------------------------------------------
(* Properties of make_digested_record *)

\* the constructor has returned: the object and its digested record exist
Digested == gen_pc \notin {"idle", "new", "failed"}

\* C11: once make_digested_record has completed, a year in the digested
\* record is exactly four digits, whatever the raw year was.
C11_YearIsFourDigits ==
    (Digested /\ "year" \in DOMAIN digested_record) =>
        /\ Len(digested_record["year"]) = 4
        /\ \A i \in 1..4 : digested_record["year"][i] \in Digits

\* the reference made of the digested year, page, volume and pub (as journal)
DigestedAsRef ==
    RefRecord(<< >>, Get(digested_record, "year", << >>),
              [journal |-> Get(digested_record, "pub", << >>), book |-> << >>],
              Get(digested_record, "volume", << >>),
              Get(digested_record, "page", << >>),
              << >>, << >>, << >>, << >>)

\* C12: digesting the digested year, page, volume and pub again does not
\* raise and gives back the same four values; Phys. Rev. with volume D81
\* digests to Phys. Rev. D with volume 81.
C12_DigestionIdempotent ==
    Digested =>
        /\ ~YearFails(CopyFields(DigestedAsRef, << >>, 1))
        /\ \A k \in {"year", "page", "volume", "pub"} :
              Get(MakeDigestedRecord(DigestedAsRef), k, << >>)
                 = Get(digested_record, k, << >>)
        /\ (ref.journal = S_PhysRev /\ ref.book = << >> /\ ref.volume = <<"D", "8", "1">>)
              => /\ digested_record["pub"] = S_PhysRevD
                 /\ digested_record["volume"] = <<"8", "1">>

\* C12 witness: a record whose year, page, volume and pub were all changed
\* by the digestion (Phys. Rev. / D81 / 2001a / 12345-50) has been digested.
C12_Witness ==
    /\ Digested
    /\ ref.journal = S_PhysRev
    /\ ref.book = << >>
    /\ ref.volume = <<"D", "8", "1">>
    /\ ref.year = <<"2", "0", "0", "1", "a">>
    /\ ref.page = <<"1", "2", "3", "4", "5", "-", "5", "0">>
    /\ digested_record["pub"] = S_PhysRevD
    /\ digested_record["volume"] = <<"8", "1">>
    /\ digested_record["year"] = <<"2", "0", "0", "1">>
    /\ digested_record["page"] = <<"1", "2", "3", "4", "5">>

-----------------------------------------------------------------------------
(* Properties of iter_journal_specific_hypotheses *)

CalledForBAAS == extras_called /\ extras_args.bibstem = S_BAAS

BaasTargets == << [name |-> "extra-BAAS->DDA", stem |-> S_DDA],
                  [name |-> "extra-BAAS->AAS", stem |-> S_AAS],
                  [name |-> "extra-BAAS->DPS", stem |-> S_DPS] >>

\* the i-th yielded hypothesis is the BAAS hypothesis for the i-th target:
\* no volume, page or pub in its hints, bibstem its target, and the
\* volume, page and pub of the call in its input_fields detail
IsBaasHypothesis(i) ==
    /\ extras_out[i].name = BaasTargets[i].name
    /\ {"volume", "page", "pub"} \cap DOMAIN extras_out[i].hints = {}
    /\ extras_out[i].hints["bibstem"] = BaasTargets[i].stem
    /\ Get(extras_out[i].details.input_fields.fields, "volume", << >>) = extras_args.volume
    /\ Get(extras_out[i].details.input_fields.fields, "page", << >>) = extras_args.page
    /\ Get(extras_out[i].details.input_fields.fields, "pub", << >>) = extras_args.journal

\* the conference-series patterns the journal argument matches
MatchedConfSeries ==
    { i \in 1..Len(ConfSeriesIndicators) :
        Contains(extras_args.journal, ConfSeriesIndicators[i][1]) }

\* C13 (as stated): called with bibstem BAAS, iter_journal_specific_hypotheses
\* yields exactly three hypotheses, the BAAS hypotheses for DDA, AAS, DPS.
C13_ExactlyThreeForBAAS ==
    CalledForBAAS =>
        /\ Len(extras_out) = 3
        /\ \A i \in 1..3 : IsBaasHypothesis(i)

\* C13 (amended): called with bibstem BAAS, it yields first the three BAAS
\* hypotheses for DDA, AAS, DPS, and after them one fielded-confser
\* hypothesis for every conference-series pattern the journal argument
\* matches: exactly three only when the journal matches none.
C13_ThreeForBAASPlusConfSeries ==
    CalledForBAAS =>
        /\ Len(extras_out) = 3 + Cardinality(MatchedConfSeries)
        /\ \A i \in 1..3 : IsBaasHypothesis(i)
        /\ \A i \in 4..Len(extras_out) :
              /\ extras_out[i].name \in {"fielded-confser-SPIE", "fielded-confser-BSRSL"}
              /\ "pub" \notin DOMAIN extras_out[i].hints

\* C13 witness: the call was made with bibstem BAAS, a volume, a page and a
\* journal string that names a conference series, and four hypotheses came out.
C13_Witness ==
    /\ CalledForBAAS
    /\ extras_args.volume # << >>
    /\ extras_args.page # << >>
    /\ MatchedConfSeries # {}
    /\ Len(extras_out) = 4

-----------------------------------------------------------------------------
(* Properties of the field-presence guards of iter_hypotheses *)

\* the fields each kind of hypothesis requires in the digested record
RequiredFields(name) ==
    IF name = "fielded-DOI" THEN {"doi"}
    ELSE IF name = "fielded-arxiv" THEN {"arxiv"}
    ELSE IF name = "fielded-bibcode" THEN {"author", "year", "pub"}
    ELSE IF name = "fielded-auth/year/volume/page" THEN {"author", "year", "volume", "page"}
    ELSE IF name = "fielded-auth/pub/year" THEN {"author", "pub", "year"}
    ELSE IF name = "fielded-title" THEN {"author", "year", "title"}
    ELSE IF name = "fielded-book" THEN {"author", "pub", "year"}
    ELSE IF name = "fielded-thesis" THEN {"author", "year", "refstr"}
    ELSE IF name \in ExtraNames THEN {"pub"}
    ELSE IF name = "fielded-author/page" THEN {"author", "page"}
    ELSE IF name = "fielded-no-author" THEN {"year", "pub", "volume", "page"}
    ELSE IF name = "fielded-no-year" THEN {"author", "pub", "volume", "page"}
    ELSE {"author", "year"}

\* the reference has a doi and nothing else
OnlyDoi ==
    /\ gen_pc \notin {"idle", "new"}
    /\ ref.doi # << >>
    /\ \A f \in RawFields \ {"doi"} : ref[f] = << >>

\* C14: a reference whose only field is doi does not make the constructor
\* fail, yields nothing but fielded-DOI, and once the generator is exhausted
\* has yielded exactly that one hypothesis with hints {doi: value}; and
\* every hypothesis that is yielded has all its required fields, non-empty,
\* in the digested record.
C14_StepsNeedTheirFields ==
    /\ OnlyDoi =>
          /\ gen_pc # "failed"
          /\ Len(yielded) <= 1
          /\ gen_pc \notin {"doi"} =>
                /\ Len(yielded) = 1
                /\ yielded[1].name = "fielded-DOI"
                /\ yielded[1].hints = [doi |-> ref.doi]
    /\ \A i \in 1..Len(yielded) :
          \A k \in RequiredFields(yielded[i].name) :
              Get(digested_record, k, << >>) # << >>

\* C14 witness: the generator ran to its end on a doi-only reference and
\* yielded its single hypothesis.
C14_Witness ==
    /\ OnlyDoi
    /\ GeneratorExhausted
    /\ Len(yielded) = 1
    /\ yielded[1].name = "fielded-DOI"

-----------------------------------------------------------------------------
(* Properties of solve_for_fields *)

\* C15: over all the solve_for_fields calls made so far, the backend client
\* (Querier) has been constructed at most once.
C15_QuerierConstructedOnce == querierCount <= 1

-----------------------------------------------------------------------------
(* Properties of inspect_doubtful_solutions *)

\* choose_solution went down the doubtful path: there were candidates and
\* none cleared the threshold
Doubtful == chosen.kind # "idle" /\ candidates # << >> /\ Survivors = {}

NonVetoed == { i \in 1..Len(candidates) : ~HasVeto(candidates[i].ev) }

PageOnlyVetoed == { i \in 1..Len(candidates) : SingleVetoFrom(candidates[i].ev, "page") }

StashOf(i) == << <<GetScore(candidates[i].ev), candidates[i].bibcode>> >>

\* C16 (as stated): on the doubtful path a lone non-vetoed candidate is
\* raised as Undecidable; otherwise Undecidable is raised only when the
\* input has no page and every candidate's sole veto concerns page;
\* otherwise NoSolution; no candidate is accepted.
C16_PageRuleNeedsAllPageVetoed ==
    Doubtful =>
        /\ chosen.kind \in {"Undecidable", "NoSolution"}
        /\ Cardinality(NonVetoed) = 1 =>
              \E i \in NonVetoed : chosen = Undecidable(StashOf(i))
        /\ (Cardinality(NonVetoed) # 1 /\ chosen.kind = "Undecidable") =>
              /\ ~chooserHyp.input_page
              /\ \A i \in 1..Len(candidates) : i \in PageOnlyVetoed
              /\ \E i \in PageOnlyVetoed : chosen = Undecidable(StashOf(i))

\* C16 (amended): on the doubtful path a lone non-vetoed candidate is
\* raised as Undecidable; otherwise, when the hypothesis has input fields
\* without a page and some candidate's sole veto concerns page, Undecidable
\* is raised for the first such candidate of the list, whatever the other
\* candidates are; otherwise NoSolution; no candidate is accepted.
C16_PageRuleNeedsOnePageVetoed ==
    Doubtful =>
        /\ chosen.kind \in {"Undecidable", "NoSolution"}
        /\ Cardinality(NonVetoed) = 1 =>
              \E i \in NonVetoed : chosen = Undecidable(StashOf(i))
        /\ Cardinality(NonVetoed) # 1 =>
              IF /\ chooserHyp.has_input_fields
                 /\ ~chooserHyp.input_page
                 /\ PageOnlyVetoed # {}
              THEN \E i \in PageOnlyVetoed :
                      /\ \A j \in PageOnlyVetoed : i <= j
                      /\ chosen = Undecidable(StashOf(i))
              ELSE chosen = NoSolution

\* C16 witness: the doubtful path was taken without an input page, on two
\* vetoed candidates of which only one is vetoed for its page alone, and
\* Undecidable was raised.
C16_Witness ==
    /\ Doubtful
    /\ Len(candidates) = 2
    /\ NonVetoed = {}
    /\ Cardinality(PageOnlyVetoed) = 1
    /\ chooserHyp.has_input_fields
    /\ ~chooserHyp.input_page
    /\ chosen.kind = "Undecidable"

-----------------------------------------------------------------------------
(* Properties of the has_etal detail *)

IdentifierNames == {"fielded-DOI", "fielded-arxiv", "fielded-bibcode"}

\* the hypotheses whose has_etal detail is the local has_etal
EtalCarriers ==
    {"fielded-auth/year/volume/page", "fielded-auth/pub/year",
     "fielded-first-author-norm/year", "fielded-first-author-norm~/year",
     "fielded-author-norm/year~", "fielded-no-year"}

\* the hypotheses whose has_etal detail is the literal False
EtalFixedFalse == {"fielded-title", "fielded-book", "fielded-no-author"}

\* C17 (as stated): every hypothesis yielded after the identifier
\* hypotheses carries a has_etal detail equal to the flag computed from the
\* raw reference.
C17_EveryWeakerCarriesFlag ==
    \A i \in 1..Len(yielded) :
        yielded[i].name \notin IdentifierNames =>
            /\ "has_etal" \in DOMAIN yielded[i].details
            /\ yielded[i].details["has_etal"] = RefHasEtal(ref)

\* C17 (amended): once the generator has started, has_etal is the flag
\* computed from the raw reference; the hypotheses auth/year/volume/page,
\* auth/pub/year, the three author/year ones and no-year carry it; title,
\* book and no-author carry has_etal = False whatever the flag; the
\* identifier, thesis, author/page and journal-specific hypotheses carry no
\* has_etal detail.
C17_FlagCarriedByAuthorSteps ==
    /\ gen_pc \notin {"idle", "new", "failed", "doi"} => has_etal = RefHasEtal(ref)
    /\ \A i \in 1..Len(yielded) :
          /\ yielded[i].name \in EtalCarriers =>
                /\ "has_etal" \in DOMAIN yielded[i].details
                /\ yielded[i].details["has_etal"] = RefHasEtal(ref)
          /\ yielded[i].name \in EtalFixedFalse =>
                /\ "has_etal" \in DOMAIN yielded[i].details
                /\ yielded[i].details["has_etal"] = FALSE
          /\ yielded[i].name \notin EtalCarriers \cup EtalFixedFalse =>
                "has_etal" \notin DOMAIN yielded[i].details

\* C17 witness: the generator ran to its end on a reference whose authors
\* end in "et al."; it yielded a hypothesis carrying has_etal = True, the
\* title hypothesis with has_etal = False and the author/page hypothesis.
C17_Witness ==
    /\ GeneratorExhausted
    /\ EtalSearch(ref.authors)
    /\ \E i \in 1..Len(yielded) :
          /\ yielded[i].name = "fielded-auth/year/volume/page"
          /\ yielded[i].details["has_etal"] = TRUE
    /\ \E i \in 1..Len(yielded) :
          /\ yielded[i].name = "fielded-title"
          /\ yielded[i].details["has_etal"] = FALSE
    /\ \E i \in 1..Len(yielded) : yielded[i].name = "fielded-author/page"

=============================================================================
